---- MODULE Spec2Model ----
\* A model of the OpenCode embedding adapter
\* (packages/core/src/embedding/opencode-embedding.ts) and of the OpenCode
\* configuration synthesizer (packages/mcp/src/opencode-config.ts).
\*
\* The adapter is modelled at the grain of JavaScript's run-to-completion
\* semantics: an action is the code an async method runs between two awaits
\* that can only be resumed by the network. The remote service is the
\* environment: it answers every request with any response of a bounded set.
EXTENDS Integers, Sequences, FiniteSets, TLC

\* ---------------------------------------------------------------- bounds

\* Largest number of texts in a batch and of items in a response.
MaxBatch == 2
\* Vector lengths the service may return besides the table's: 0..MaxLen.
MaxLen == 1
\* Number of method invocations that may be pending or unreturned at once
\* in the concurrent specification.
MaxInFlight == 2
\* Largest number of optional environment variables set at once.
MaxSet == 2

\* -------------------------------------------------- the embedding adapter

\* private dimension: number = 1536
DefaultDimension == 1536

DefaultModel == "opencode-embed-v1"

\* static getSupportedModels(): name -> dimension (descriptions left out).
getSupportedModels ==
    [m \in {"opencode-embed-v1", "opencode-embed-large", "opencode-code-embed"} |->
        CASE m = "opencode-embed-v1" -> 1536
          [] m = "opencode-embed-large" -> 3072
          [] m = "opencode-code-embed" -> 1024]

KnownNames == DOMAIN getSupportedModels

\* Model names that are not keys of the table. The empty name is the one the
\* code replaces by the default model wherever it reads `config.model || ...`.
CustomNames == {"custom-x", "custom-y"}
ModelNames == KnownNames \cup CustomNames \cup {""}

\* knownModels[model] is truthy
IsKnown(m) == m \in DOMAIN getSupportedModels

\* this.config.model || 'opencode-embed-v1'
EffectiveModel(m) == IF m = "" THEN DefaultModel ELSE m

\* The texts a caller may pass.
Texts == {"t1", "t2"}
TextLists == UNION {[1..n -> Texts] : n \in 1..MaxBatch}

\* Lengths of the embedding arrays the service may return.
Lengths == (0..MaxLen) \cup {1024, 1536}

\* An embedding array is modelled by the text it embeds and its length.
Embeddings == [of : Texts, len : Lengths]

\* An item of response.data: with or without an embedding array.
Items == [index : {0}] \cup [index : {0}, embedding : Embeddings]
HasEmbedding(item) == "embedding" \in DOMAIN item

\* HTTP statuses of the failing responses.
ErrorStatuses == {401, 500}

\* What fetch() resolves to: response.ok, response.status and the parsed body,
\* which has a data array or has none.
FailedResponses == [ok : {FALSE}, status : ErrorStatuses]
BodiesOf(n) ==
    {[model |-> "m"]} \cup
    UNION {[model : {"m"}, data : [1..k -> Items]] : k \in 0..n}
ResponsesOf(n) ==
    FailedResponses \cup {[ok |-> TRUE, status |-> 200, body |-> b] : b \in BodiesOf(n)}
\* A request for one input is answered with at most one item, a batch
\* request with up to MaxBatch items.
SingleResponses == ResponsesOf(1)
BatchResponses == ResponsesOf(MaxBatch)
NoResponse == [ok |-> FALSE, status |-> 0]

HasData(r) == r.ok /\ "data" \in DOMAIN r.body
\* response.data[0] is truthy
HasFirst(r) == HasData(r) /\ Len(r.body.data) > 0
FirstLen(r) == r.body.data[1].embedding.len

Calls == 1..MaxInFlight

VARIABLES
    model,      \* this.config.model
    dimension,  \* this.dimension
    touched,    \* history: some embed/embedBatch/detectDimension/setModel began
    op,         \* per invocation: the method invoked, "idle" when free
    pc,         \* per invocation: "idle", "probe", "request", "resume", "done"
    lmodel,     \* per invocation: the local `model`
    texts,      \* per invocation: the input texts
    reqs,       \* per invocation: HTTP requests it has issued
    resp,       \* per invocation: the last response it processed
    result,     \* per invocation: what it returned or threw
    env,        \* process.env restricted to the recognized variables
    options,    \* the options of the last buildOpenCodeConfig call
    config      \* the object the last buildOpenCodeConfig call returned

adapterVars == <<model, dimension, touched, op, pc, lmodel, texts, reqs, resp, result>>
configVars == <<env, options, config>>
vars == <<model, dimension, touched, op, pc, lmodel, texts, reqs, resp, result,
          env, options, config>>

NoResult == [status |-> "none"]
Returned(v) == [status |-> "ok", value |-> v]
\* new Error(`<prefix of by>: <cause message>`); the message of an HTTP failure
\* carries the status code, the others carry none (0).
Thrown(by, kind, status) ==
    [status |-> "error", by |-> by, kind |-> kind, code |-> status]

Succeeded(c) == pc[c] = "done" /\ result[c].status = "ok"
Failed(c) == pc[c] = "done" /\ result[c].status = "error"

\* Mutant of getDimension: the cached field is returned for every model.
getDimension_Cached == dimension

\* getDimension(): the value it returns and whether it warns.
getDimension ==
    IF IsKnown(EffectiveModel(model))
    THEN getSupportedModels[EffectiveModel(model)]
    ELSE dimension
getDimensionWarns == ~IsKnown(EffectiveModel(model))

\* makeRequest followed by detectDimension's validation and its catch block:
\* what detectDimension returns or throws for response r.
detectOutcome(r) ==
    IF ~r.ok THEN Thrown("detectDimension", "http", r.status)
    ELSE IF ~HasFirst(r) \/ ~HasEmbedding(r.body.data[1])
         THEN Thrown("detectDimension", "invalid", 0)
         ELSE Returned(FirstLen(r))

\* makeRequest followed by embed's validation, its return and its catch block.
embedOutcome(r) ==
    IF ~r.ok THEN Thrown("embed", "http", r.status)
    ELSE IF ~HasFirst(r) \/ ~HasEmbedding(r.body.data[1])
         THEN Thrown("embed", "invalid", 0)
         ELSE Returned([vector |-> r.body.data[1].embedding,
                        dimension |-> FirstLen(r)])

\* makeRequest followed by embedBatch's validation, its map and its catch
\* block. Reading .length of a missing first embedding is a TypeError, which
\* the catch block rethrows; a later item without an embedding is mapped to
\* an entry whose vector is undefined.
embedBatchOutcome(r) ==
    IF ~r.ok THEN Thrown("embedBatch", "http", r.status)
    ELSE IF ~HasFirst(r) THEN Thrown("embedBatch", "invalid", 0)
    ELSE IF ~HasEmbedding(r.body.data[1]) THEN Thrown("embedBatch", "type", 0)
    ELSE Returned([i \in 1..Len(r.body.data) |->
            IF HasEmbedding(r.body.data[i])
            THEN [vector |-> r.body.data[i].embedding, dimension |-> FirstLen(r)]
            ELSE [dimension |-> FirstLen(r)]])

\* A caller takes the result of a finished call before anything else happens:
\* taking it touches nothing the other calls read, so no interleaving is lost.
\* A method may be invoked when fewer than k invocations are pending; the
\* lowest free slot takes it.
NoneDone == \A d \in Calls : pc[d] # "done"

Free(k, c) ==
    /\ pc[c] = "idle"
    /\ NoneDone
    /\ Cardinality({d \in Calls : pc[d] # "idle"}) < k
    /\ \A d \in Calls : d < c => pc[d] # "idle"

Begin(c, o, m, ts, p, n, res) ==
    /\ op' = [op EXCEPT ![c] = o]
    /\ lmodel' = [lmodel EXCEPT ![c] = m]
    /\ texts' = [texts EXCEPT ![c] = ts]
    /\ pc' = [pc EXCEPT ![c] = p]
    /\ reqs' = [reqs EXCEPT ![c] = n]
    /\ result' = [result EXCEPT ![c] = res]
    /\ resp' = [resp EXCEPT ![c] = NoResponse]

Finish(c, r, res) ==
    /\ pc' = [pc EXCEPT ![c] = "done"]
    /\ resp' = [resp EXCEPT ![c] = r]
    /\ result' = [result EXCEPT ![c] = res]
    /\ UNCHANGED <<op, lmodel, texts>>

\* getDimension(): synchronous, no request.
GetDimension(k, c) ==
    /\ Free(k, c)
    /\ Begin(c, "getDimension", EffectiveModel(model), <<>>, "done", 0,
             Returned([value |-> getDimension, warned |-> getDimensionWarns]))
    /\ UNCHANGED <<model, dimension, touched, configVars>>

\* detectDimension(): a known model is answered from the table without a
\* request, any other model by one probe request.
DetectDimension(k, c) ==
    /\ Free(k, c)
    /\ LET m == EffectiveModel(model) IN
         IF IsKnown(m)
         THEN Begin(c, "detectDimension", m, <<>>, "done", 0,
                    Returned(getSupportedModels[m]))
         ELSE Begin(c, "detectDimension", m, <<>>, "probe", 1, NoResult)
    /\ touched' = TRUE
    /\ UNCHANGED <<model, dimension, configVars>>

DetectDimensionResponse(c, R) ==
    /\ op[c] = "detectDimension" /\ pc[c] = "probe"
    /\ NoneDone
    /\ \E r \in R :
       Finish(c, r, detectOutcome(r))
    /\ UNCHANGED <<model, dimension, touched, reqs, configVars>>

\* Mutant of Embed: the probe of a model outside the table is left out.
Embed_NoProbe(k, c, text) ==
    /\ Free(k, c)
    /\ LET m == EffectiveModel(model) IN
         /\ dimension' = IF IsKnown(m) THEN getSupportedModels[m] ELSE dimension
         /\ Begin(c, "embed", m, <<text>>, "request", 1, NoResult)
    /\ touched' = TRUE
    /\ UNCHANGED <<model, configVars>>

\* embed(text) up to its first request: a known model's dimension is stored
\* and the embedding request issued; for any other model detectDimension()
\* issues its probe.
Embed(k, c, text) ==
    /\ Free(k, c)
    /\ LET m == EffectiveModel(model) IN
         IF IsKnown(m)
         THEN /\ dimension' = getSupportedModels[m]
              /\ Begin(c, "embed", m, <<text>>, "request", 1, NoResult)
         ELSE /\ dimension' = dimension
              /\ Begin(c, "embed", m, <<text>>, "probe", 1, NoResult)
    /\ touched' = TRUE
    /\ UNCHANGED <<model, configVars>>

\* embed resumed by its probe: a failed probe ends the call with the probe's
\* error; a successful one stores the probed length and issues the request.
EmbedProbeResponse(c, R) ==
    /\ op[c] = "embed" /\ pc[c] = "probe"
    /\ NoneDone
    /\ \E r \in R :
       LET d == detectOutcome(r) IN
            IF d.status = "error"
            THEN /\ Finish(c, r, d)
                 /\ UNCHANGED <<dimension, reqs>>
            ELSE /\ dimension' = d.value
                 /\ pc' = [pc EXCEPT ![c] = "request"]
                 /\ reqs' = [reqs EXCEPT ![c] = @ + 1]
                 /\ UNCHANGED <<op, lmodel, texts, resp, result>>
    /\ UNCHANGED <<model, touched, configVars>>

\* embed resumed by its embedding response.
EmbedResponse(c, R) ==
    /\ op[c] = "embed" /\ pc[c] = "request"
    /\ NoneDone
    /\ \E r \in R :
       LET e == embedOutcome(r) IN
            /\ Finish(c, r, e)
            /\ dimension' = IF e.status = "ok" THEN FirstLen(r) ELSE dimension
    /\ UNCHANGED <<model, touched, reqs, configVars>>

\* embedBatch(texts) up to its first request.
EmbedBatch(k, c, ts) ==
    /\ Free(k, c)
    /\ LET m == EffectiveModel(model) IN
         IF IsKnown(m)
         THEN /\ dimension' = getSupportedModels[m]
              /\ Begin(c, "embedBatch", m, ts, "request", 1, NoResult)
         ELSE /\ dimension' = dimension
              /\ Begin(c, "embedBatch", m, ts, "probe", 1, NoResult)
    /\ touched' = TRUE
    /\ UNCHANGED <<model, configVars>>

EmbedBatchProbeResponse(c, R) ==
    /\ op[c] = "embedBatch" /\ pc[c] = "probe"
    /\ NoneDone
    /\ \E r \in R :
       LET d == detectOutcome(r) IN
            IF d.status = "error"
            THEN /\ Finish(c, r, d)
                 /\ UNCHANGED <<dimension, reqs>>
            ELSE /\ dimension' = d.value
                 /\ pc' = [pc EXCEPT ![c] = "request"]
                 /\ reqs' = [reqs EXCEPT ![c] = @ + 1]
                 /\ UNCHANGED <<op, lmodel, texts, resp, result>>
    /\ UNCHANGED <<model, touched, configVars>>

EmbedBatchResponse(c, R) ==
    /\ op[c] = "embedBatch" /\ pc[c] = "request"
    /\ NoneDone
    /\ \E r \in R :
       LET e == embedBatchOutcome(r) IN
            /\ Finish(c, r, e)
            /\ dimension' = IF e.status = "ok" THEN FirstLen(r) ELSE dimension
    /\ UNCHANGED <<model, touched, reqs, configVars>>

\* Mutant of SetModel: a name outside the table is stored without a probe.
SetModel_NoProbe(k, c, name) ==
    /\ Free(k, c)
    /\ model' = name
    /\ dimension' = IF IsKnown(name) THEN getSupportedModels[name] ELSE dimension
    /\ Begin(c, "setModel", name, <<>>, "done", 0, Returned("void"))
    /\ touched' = TRUE
    /\ UNCHANGED configVars

\* setModel(name) up to its first await: the name is stored; a key of the
\* table sets the dimension at once; otherwise detectDimension() is awaited,
\* which probes, or, for the empty name, returns the default model's
\* dimension without a request.
SetModel(k, c, name) ==
    /\ Free(k, c)
    /\ model' = name
    /\ IF IsKnown(name)
       THEN /\ dimension' = getSupportedModels[name]
            /\ Begin(c, "setModel", name, <<>>, "done", 0, Returned("void"))
       ELSE /\ dimension' = dimension
            /\ IF IsKnown(EffectiveModel(name))
               THEN Begin(c, "setModel", name, <<>>, "resume", 0,
                          Returned(getSupportedModels[EffectiveModel(name)]))
               ELSE Begin(c, "setModel", name, <<>>, "probe", 1, NoResult)
    /\ touched' = TRUE
    /\ UNCHANGED configVars

\* setModel resumed after detectDimension() returned without a request.
SetModelResume(c) ==
    /\ op[c] = "setModel" /\ pc[c] = "resume"
    /\ NoneDone
    /\ dimension' = result[c].value
    /\ Finish(c, resp[c], Returned("void"))
    /\ UNCHANGED <<model, touched, reqs, configVars>>

\* Mutant of SetModelProbeResponse: a probe answered after the model was
\* changed again is dropped instead of stored.
SetModelProbeResponse_DropStale(c, R) ==
    /\ op[c] = "setModel" /\ pc[c] = "probe"
    /\ NoneDone
    /\ \E r \in R :
       LET d == detectOutcome(r) IN
            /\ Finish(c, r, IF d.status = "ok" THEN Returned("void") ELSE d)
            /\ dimension' = IF d.status = "ok" /\ model = lmodel[c]
                            THEN d.value ELSE dimension
    /\ UNCHANGED <<model, touched, reqs, configVars>>

\* setModel resumed by its probe.
SetModelProbeResponse(c, R) ==
    /\ op[c] = "setModel" /\ pc[c] = "probe"
    /\ NoneDone
    /\ \E r \in R :
       LET d == detectOutcome(r) IN
            /\ Finish(c, r, IF d.status = "ok" THEN Returned("void") ELSE d)
            /\ dimension' = IF d.status = "ok" THEN d.value ELSE dimension
    /\ UNCHANGED <<model, touched, reqs, configVars>>

\* The caller takes the result; the slot is free again.
Return(c) ==
    /\ pc[c] = "done"
    /\ Begin(c, "idle", "", <<>>, "idle", 0, NoResult)
    /\ UNCHANGED <<model, dimension, touched, configVars>>

\* ------------------------------------------------ the config synthesizer

DEFAULT_PROVIDER_ID == "claude-context"

REQUIRED_ENV_VARS == <<"MILVUS_TOKEN">>

OPTIONAL_ENV_VARS ==
    <<"MILVUS_ADDRESS", "EMBEDDING_PROVIDER", "EMBEDDING_MODEL", "OPENAI_API_KEY",
      "OPENAI_BASE_URL", "VOYAGEAI_API_KEY", "GEMINI_API_KEY", "GEMINI_BASE_URL",
      "OLLAMA_MODEL", "OLLAMA_HOST", "CUSTOM_EXTENSIONS", "CUSTOM_IGNORE_PATTERNS",
      "HYBRID_MODE", "EMBEDDING_BATCH_SIZE">>

ALWAYS_INCLUDED_OPTIONAL_ENV_VARS ==
    <<"MILVUS_ADDRESS", "EMBEDDING_PROVIDER", "EMBEDDING_MODEL">>

Range(q) == {q[i] : i \in DOMAIN q}

\* type EnvVarName
EnvVarName == Range(REQUIRED_ENV_VARS) \cup Range(OPTIONAL_ENV_VARS)

DEFAULT_BUILD_OPTIONS ==
    [includeEnvValues |-> FALSE,
     providerId |-> DEFAULT_PROVIDER_ID,
     includeToolsSection |-> TRUE]

\* `{env:${name}}`
Placeholder(name) == "{env:" \o name \o "}"

\* typeof process.env[name] === 'string'
IsSet(name) == name \in DOMAIN env

\* Mutant of addEnvVar: the real value is emitted whenever the variable is
\* set, whatever includeEnvValues says.
addEnvVar_Leaky(environment, opts, name, alwaysInclude) ==
    IF alwaysInclude \/ IsSet(name)
    THEN [n \in DOMAIN environment \cup {name} |->
            IF n = name
            THEN IF IsSet(name) THEN env[name] ELSE Placeholder(name)
            ELSE environment[n]]
    ELSE environment

\* addEnvVar(name, alwaysInclude) applied to the map built so far.
addEnvVar(environment, opts, name, alwaysInclude) ==
    IF alwaysInclude \/ IsSet(name)
    THEN [n \in DOMAIN environment \cup {name} |->
            IF n = name
            THEN IF opts.includeEnvValues /\ IsSet(name)
                 THEN env[name]
                 ELSE Placeholder(name)
            ELSE environment[n]]
    ELSE environment

\* names.forEach(name => addEnvVar(name, always(name))) over the first i names.
RECURSIVE forEachEnvVar(_, _, _, _, _)
forEachEnvVar(environment, opts, names, always, i) ==
    IF i = 0 THEN environment
    ELSE addEnvVar(forEachEnvVar(environment, opts, names, always, i - 1),
                   opts, names[i], names[i] \in always)

buildEnvironmentMap(opts) ==
    LET required == forEachEnvVar(<<>>, opts, REQUIRED_ENV_VARS,
                                  Range(REQUIRED_ENV_VARS), Len(REQUIRED_ENV_VARS))
    IN forEachEnvVar(required, opts, OPTIONAL_ENV_VARS,
                     Range(ALWAYS_INCLUDED_OPTIONAL_ENV_VARS), Len(OPTIONAL_ENV_VARS))

\* options.key ?? DEFAULT_BUILD_OPTIONS.key, for an options object that has
\* the key or has it not.
OrDefault(o, key) ==
    IF key \in DOMAIN o THEN o[key] ELSE DEFAULT_BUILD_OPTIONS[key]

MergedOptions(o) ==
    [includeEnvValues |-> OrDefault(o, "includeEnvValues"),
     providerId |-> OrDefault(o, "providerId"),
     includeToolsSection |-> OrDefault(o, "includeToolsSection")]

McpEntry(environment) ==
    LET entry == [type |-> "local",
                  command |-> <<"npx", "-y", "@zilliz/claude-context-mcp@latest">>,
                  timeout |-> 20000,
                  enabled |-> TRUE]
    IN IF DOMAIN environment # {}
       THEN entry @@ [environment |-> environment]
       ELSE entry

\* Mutant of buildOpenCodeConfig: the tools section is emitted whatever
\* includeToolsSection says.
buildOpenCodeConfig_AlwaysTools(o) ==
    LET mergedOptions == MergedOptions(o)
        environment == buildEnvironmentMap(mergedOptions)
    IN ("$schema" :> "https://opencode.ai/config.json") @@
       [mcp |-> (mergedOptions.providerId :> McpEntry(environment))] @@
       [tools |-> ((mergedOptions.providerId \o "*") :> TRUE)]

buildOpenCodeConfig(o) ==
    LET mergedOptions == MergedOptions(o)
        environment == buildEnvironmentMap(mergedOptions)
        base == ("$schema" :> "https://opencode.ai/config.json") @@
                [mcp |-> (mergedOptions.providerId :> McpEntry(environment))]
    IN IF mergedOptions.includeToolsSection
       THEN base @@ [tools |-> ((mergedOptions.providerId \o "*") :> TRUE)]
       ELSE base

\* The values an environment variable may hold, and the environments with at
\* most MaxSet recognized variables set.
EnvValues == {"", "abc"}
Environments ==
    UNION {[D -> EnvValues] : D \in {S \in SUBSET EnvVarName : Cardinality(S) <= MaxSet}}

\* The options objects callers pass: each key present or absent.
ProviderIds == {"custom", ""}
OptionsObjects ==
    {a @@ b @@ c :
        a \in {<<>>} \cup {[includeEnvValues |-> v] : v \in BOOLEAN},
        b \in {<<>>} \cup {[providerId |-> v] : v \in ProviderIds},
        c \in {<<>>} \cup {[includeToolsSection |-> v] : v \in BOOLEAN}}

Built == DOMAIN config # {}

BuildOpenCodeConfig ==
    /\ ~Built
    /\ config' = buildOpenCodeConfig(options)
    /\ UNCHANGED <<env, options, adapterVars>>

AdapterInit ==
    /\ model \in ModelNames
    /\ dimension = DefaultDimension
    /\ touched = FALSE
    /\ op = [c \in Calls |-> "idle"]
    /\ pc = [c \in Calls |-> "idle"]
    /\ lmodel = [c \in Calls |-> ""]
    /\ texts = [c \in Calls |-> <<>>]
    /\ reqs = [c \in Calls |-> 0]
    /\ resp = [c \in Calls |-> NoResponse]
    /\ result = [c \in Calls |-> NoResult]

ConfigIdle ==
    /\ env = <<>>
    /\ options = <<>>
    /\ config = <<>>

Init == AdapterInit /\ ConfigIdle

\* k: how many calls may be pending at once; TX, TL, MN: the texts, text
\* lists and model names callers pass; SR, BR: the responses the service
\* gives to a request for one input and to a batch request.
AdapterNext(k, TX, TL, MN, SR, BR) ==
    \E c \in Calls :
        \/ GetDimension(k, c)
        \/ DetectDimension(k, c)
        \/ DetectDimensionResponse(c, SR)
        \/ \E t \in TX : Embed(k, c, t)
        \/ EmbedProbeResponse(c, SR)
        \/ EmbedResponse(c, SR)
        \/ \E ts \in TL : EmbedBatch(k, c, ts)
        \/ EmbedBatchProbeResponse(c, SR)
        \/ EmbedBatchResponse(c, BR)
        \/ \E name \in MN : SetModel(k, c, name)
        \/ SetModelResume(c)
        \/ SetModelProbeResponse(c, SR)
        \/ Return(c)

\* One caller that awaits every call before making the next.
Next == AdapterNext(1, Texts, TextLists, ModelNames, SingleResponses, BatchResponses)
Spec == Init /\ [][Next]_vars

\* Independent call sites: up to MaxInFlight calls overlap. The service
\* answers with one well-formed item of any length or with a failure.
ConcTexts == {"t1"}
ConcResponses ==
    {[ok |-> FALSE, status |-> 500]} \cup
    {[ok |-> TRUE, status |-> 200,
      body |-> [model |-> "m",
                data |-> <<[index |-> 0, embedding |-> [of |-> "t1", len |-> n]]>>]] :
        n \in Lengths}
NextConc ==
    AdapterNext(MaxInFlight, ConcTexts, {<<"t1">>}, ModelNames,
                ConcResponses, ConcResponses)
SpecConc == Init /\ [][NextConc]_vars

\* The synthesizer is a function of the options and the environment: every
\* pair is an initial state, and the one step builds the config.
AdapterIdle ==
    /\ model = DefaultModel
    /\ dimension = DefaultDimension
    /\ touched = FALSE
    /\ op = [c \in Calls |-> "idle"]
    /\ pc = [c \in Calls |-> "idle"]
    /\ lmodel = [c \in Calls |-> ""]
    /\ texts = [c \in Calls |-> <<>>]
    /\ reqs = [c \in Calls |-> 0]
    /\ resp = [c \in Calls |-> NoResponse]
    /\ result = [c \in Calls |-> NoResult]

InitConfig ==
    /\ AdapterIdle
    /\ env \in Environments
    /\ options \in OptionsObjects
    /\ config = <<>>

NextConfig == BuildOpenCodeConfig
SpecConfig == InitConfig /\ [][NextConfig]_vars

\* ------------------------------------------------------------ the claims

Done(c, o) == op[c] = o /\ pc[c] = "done"
Ok(c, o) == Done(c, o) /\ result[c].status = "ok"

\* C1, as stated: with the configured model one of the three table keys,
\* getDimension() returns the table dimension and every successful embed
\* returns an EmbeddingVector whose dimension is the table dimension,
\* whatever length the service's vector has.
C1_Original ==
    model \in KnownNames =>
        /\ getDimension = getSupportedModels[model]
        /\ \A c \in Calls :
              Ok(c, "embed") => result[c].value.dimension = getSupportedModels[model]

\* C1, amended: with the configured model one of the three table keys,
\* getDimension() returns the table dimension after any sequence of calls;
\* a successful embed returns the length of the service's vector as the
\* dimension, which is the table dimension when the vector has that length.
C1_Amended ==
    model \in KnownNames =>
        /\ getDimension = getSupportedModels[model]
        /\ \A c \in Calls :
              /\ Ok(c, "getDimension") =>
                    result[c].value.value = getSupportedModels[model]
              /\ Ok(c, "embed") =>
                    /\ result[c].value.dimension = FirstLen(resp[c])
                    /\ result[c].value.dimension = result[c].value.vector.len
                    /\ FirstLen(resp[c]) = getSupportedModels[model] =>
                          result[c].value.dimension = getSupportedModels[model]

\* C1's case: a known model whose embed was answered with a vector of another
\* length, so that the stored dimension and the table disagree.
C1_Witness ==
    \E c \in Calls :
        /\ Ok(c, "embed")
        /\ model \in KnownNames
        /\ result[c].value.dimension # getSupportedModels[model]
        /\ dimension # getSupportedModels[model]
        /\ getDimension = getSupportedModels[model]

\* C2, for the model names outside the table that are not empty: before any
\* probe or embedding call getDimension() returns the default 1536 and warns;
\* after a successful detectDimension() and after a successful embed() it
\* returns the length of the vector that call observed.
C2_Claim ==
    model \in CustomNames =>
        /\ ~touched =>
              /\ getDimension = DefaultDimension
              /\ \A c \in Calls :
                    Ok(c, "getDimension") =>
                        result[c].value = [value |-> DefaultDimension, warned |-> TRUE]
        /\ \A c \in Calls :
              /\ Ok(c, "detectDimension") => getDimension = result[c].value
              /\ Ok(c, "embed") => getDimension = FirstLen(resp[c])

\* C3, its last clause: embedBatch fails or returns as many vectors as it
\* was given texts.
C3_Claim ==
    \A c \in Calls :
        Ok(c, "embedBatch") => Len(result[c].value) = Len(texts[c])

\* C4: every EmbeddingVector that embed or embedBatch returns with a vector
\* has dimension = length(vector).
C4_Claim ==
    \A c \in Calls :
        /\ Ok(c, "embed") =>
              result[c].value.dimension = result[c].value.vector.len
        /\ Ok(c, "embedBatch") =>
              \A i \in DOMAIN result[c].value :
                  "vector" \in DOMAIN result[c].value[i] =>
                      result[c].value[i].dimension = result[c].value[i].vector.len

\* C5: a call of embed, embedBatch or detectDimension that processed a
\* response fails when the status is not successful (its error carrying the
\* status code), when the body has no non-empty data array, when the first
\* result has no embedding, and, for embedBatch, when any result has none.
C5_Claim ==
    \A c \in Calls :
        (pc[c] = "done" /\ op[c] \in {"embed", "embedBatch", "detectDimension"}
           /\ resp[c].status # 0) =>
            /\ ~resp[c].ok =>
                  result[c].status = "error" /\ result[c].code = resp[c].status
            /\ (resp[c].ok /\ ~HasFirst(resp[c])) => result[c].status = "error"
            /\ (HasFirst(resp[c]) /\ ~HasEmbedding(resp[c].body.data[1])) =>
                  result[c].status = "error"
            /\ (op[c] = "embedBatch" /\ HasFirst(resp[c])
                  /\ \E i \in DOMAIN resp[c].body.data :
                        ~HasEmbedding(resp[c].body.data[i])) =>
                  result[c].status = "error"

\* C6, as stated: setModel with a table key issues no request and
\* getDimension() is then the table dimension; setModel with any other name
\* issues exactly one probe request before it resolves and, on success, the
\* stored dimension is the probed length.
C6_Original ==
    \A c \in Calls :
        Done(c, "setModel") =>
            /\ model \in KnownNames =>
                  reqs[c] = 0 /\ getDimension = getSupportedModels[model]
            /\ model \notin KnownNames =>
                  /\ reqs[c] = 1
                  /\ result[c].status = "ok" => dimension = FirstLen(resp[c])

\* C6, amended: setModel with a table key completes in its first step with no
\* request, and getDimension() is then the table dimension; with a non-empty
\* name outside the table it issues exactly one probe request before it
\* resolves and, on success, the stored dimension is the probed length; with
\* the empty name it issues no request and stores the default model's
\* dimension.
C6_Amended ==
    \A c \in Calls :
        /\ (op[c] = "setModel" /\ pc[c] \in {"probe", "resume"}) =>
              model \notin KnownNames
        /\ Done(c, "setModel") =>
              /\ model \in KnownNames =>
                    /\ reqs[c] = 0
                    /\ result[c].status = "ok"
                    /\ getDimension = getSupportedModels[model]
              /\ model \in CustomNames =>
                    /\ reqs[c] = 1
                    /\ resp[c].status # 0
                    /\ result[c].status = "ok" => dimension = FirstLen(resp[c])
              /\ model = "" =>
                    /\ reqs[c] = 0
                    /\ result[c].status = "ok"
                    /\ dimension = getSupportedModels[DefaultModel]

\* C6's case: setModel with a custom name has resolved after one probe that
\* returned a length other than the one stored before.
C6_Witness ==
    \E c \in Calls :
        /\ Ok(c, "setModel")
        /\ model \in CustomNames
        /\ reqs[c] = 1
        /\ dimension = FirstLen(resp[c])
        /\ dimension # DefaultDimension

\* The recognized variables that are always in the map, and the other eleven.
AlwaysKeys == {"MILVUS_TOKEN", "MILVUS_ADDRESS", "EMBEDDING_PROVIDER", "EMBEDDING_MODEL"}
OtherKeys ==
    {"OPENAI_API_KEY", "OPENAI_BASE_URL", "VOYAGEAI_API_KEY", "GEMINI_API_KEY",
     "GEMINI_BASE_URL", "OLLAMA_MODEL", "OLLAMA_HOST", "CUSTOM_EXTENSIONS",
     "CUSTOM_IGNORE_PATTERNS", "HYBRID_MODE", "EMBEDDING_BATCH_SIZE"}
PassedProviderId ==
    IF "providerId" \in DOMAIN options THEN options.providerId ELSE "claude-context"
PassedIncludeEnvValues ==
    "includeEnvValues" \in DOMAIN options /\ options.includeEnvValues

\* C7: the environment map has exactly the keys MILVUS_TOKEN, MILVUS_ADDRESS,
\* EMBEDDING_PROVIDER, EMBEDDING_MODEL and each of the other eleven recognized
\* variables that is set; a key's value is the variable's real value when
\* includeEnvValues is true and the variable is set, else {env:NAME}.
C7_EnvironmentMap ==
    Built =>
        LET e == config["mcp"][PassedProviderId]["environment"] IN
          /\ Cardinality(OtherKeys) = 11
          /\ DOMAIN e = AlwaysKeys \cup (OtherKeys \cap DOMAIN env)
          /\ \A n \in DOMAIN e :
                e[n] = IF PassedIncludeEnvValues /\ n \in DOMAIN env
                       THEN env[n]
                       ELSE "{env:" \o n \o "}"

\* C7's case: real values asked for, MILVUS_TOKEN=abc set, MILVUS_ADDRESS not
\* set, another optional variable set.
C7_Witness ==
    /\ Built
    /\ PassedIncludeEnvValues
    /\ DOMAIN env = {"MILVUS_TOKEN", "OLLAMA_HOST"}
    /\ env["MILVUS_TOKEN"] = "abc"
    /\ config["mcp"][PassedProviderId]["environment"]["MILVUS_TOKEN"] = "abc"
    /\ config["mcp"][PassedProviderId]["environment"]["MILVUS_ADDRESS"] = "{env:MILVUS_ADDRESS}"

\* C8: the mcp mapping has the single key providerId (default
\* claude-context); there is a tools key exactly when includeToolsSection is
\* not false, and tools then has the single key providerId followed by "*";
\* the entry's environment key is left out exactly when no variable
\* qualifies for inclusion.
C8_ConfigShape ==
    Built =>
        /\ DOMAIN config["mcp"] = {PassedProviderId}
        /\ "tools" \in DOMAIN config <=>
              ~("includeToolsSection" \in DOMAIN options /\ ~options.includeToolsSection)
        /\ "tools" \in DOMAIN config =>
              DOMAIN config["tools"] = {PassedProviderId \o "*"}
        /\ "environment" \notin DOMAIN config["mcp"][PassedProviderId] <=>
              AlwaysKeys \cup (OtherKeys \cap DOMAIN env) = {}

\* C8's case: a custom providerId with the tools section left to its default.
C8_Witness ==
    /\ Built
    /\ "providerId" \in DOMAIN options /\ options.providerId = "custom"
    /\ "includeToolsSection" \notin DOMAIN options
    /\ DOMAIN config["mcp"] = {"custom"}
    /\ DOMAIN config["tools"] = {"custom*"}

\* C9, as stated: every invocation of embed, embedBatch and detectDimension
\* issues exactly one request and getDimension issues none.
C9_Original ==
    \A c \in Calls :
        pc[c] = "done" =>
            /\ op[c] \in {"embed", "embedBatch", "detectDimension"} => reqs[c] = 1
            /\ op[c] = "getDimension" => reqs[c] = 0

ProbeFailed(c) == result[c].status = "error" /\ result[c].by = "detectDimension"

\* C9, amended: getDimension issues no request; detectDimension issues none
\* for a model of the table (the empty name standing for the default model)
\* and exactly one for any other; embed and embedBatch issue exactly one for
\* a model of the table and, for any other, the probe and then the embedding
\* request: two, or one when the probe fails.
C9_Amended ==
    \A c \in Calls :
        pc[c] = "done" =>
            /\ op[c] = "getDimension" => reqs[c] = 0
            /\ op[c] = "detectDimension" =>
                  reqs[c] = IF IsKnown(lmodel[c]) THEN 0 ELSE 1
            /\ op[c] \in {"embed", "embedBatch"} =>
                  reqs[c] = IF IsKnown(lmodel[c]) \/ ProbeFailed(c) THEN 1 ELSE 2

\* C9's case: an embed for a custom model that returned after its probe and
\* its embedding request.
C9_Witness ==
    \E c \in Calls :
        /\ Ok(c, "embed")
        /\ lmodel[c] \in CustomNames
        /\ reqs[c] = 2

\* C10: with several calls in flight, whichever response is processed
\* overwrites the dimension with its own length, whatever was stored and
\* whichever call was issued last.
C10_LastWriterWins ==
    [][\A c \in Calls :
          /\ (op[c] \in {"embed", "embedBatch", "setModel"}
                /\ pc[c] \in {"probe", "request"}
                /\ pc'[c] = "done" /\ result'[c].status = "ok") =>
                dimension' = FirstLen(resp'[c])
          /\ (op[c] = "setModel" /\ pc[c] = "resume" /\ pc'[c] = "done") =>
                dimension' = getSupportedModels[DefaultModel]]_vars

\* C10's case: setModel(X) and then setModel(Y) overlapped, Y's call has
\* resolved and returned, X's probe was answered last: the configured model
\* is Y and getDimension() returns the probed length of X.
C10_Witness ==
    \E c \in Calls :
        /\ Ok(c, "setModel")
        /\ lmodel[c] \in CustomNames
        /\ model \in CustomNames \ {lmodel[c]}
        /\ \A d \in Calls \ {c} : pc[d] = "idle"
        /\ getDimension = FirstLen(resp[c])
        /\ getDimension # DefaultDimension

====
